---- MODULE Spec2Model ----
(***************************************************************************)
(* Model of modifiedLSTM.py: the BasicNeatCell and AdvancedNeatCell        *)
(* recurrent cells (build / call life cycle and the gate arithmetic).      *)
(*                                                                         *)
(* Tensors are matrices (sequences of rows) of fixed-point numbers: the    *)
(* integer v stands for the real number v / Scale.  A 1-D tensor (the      *)
(* bias) is a sequence of numbers.                                         *)
(***************************************************************************)
EXTENDS Integers, Sequences, FiniteSets

\* ------------------------------------------------------------------ bounds
Scale == 4          \* fixed-point resolution: 1.0 is represented by Scale
MaxUnits == 2       \* num_units ranges over 1..MaxUnits
MaxDepth == 2       \* input depth ranges over 1..MaxDepth
MaxBatch == 2       \* batch size ranges over 1..MaxBatch
MaxSteps == 2       \* number of successful calls in one run

KernelSeeds == {1, 2}     \* initial kernels the variable store may hand out
InputSeeds == {0, 1}      \* input tensors fed to call
StateSeeds == {0, 1}      \* initial recurrent states (0 is the zero state)
BiasSeeds == {1}          \* bias values written by a checkpoint restore

\* ------------------------------------------------------- fixed-point numbers
\* a / b rounded to the nearest integer (b > 0)
RoundDiv(a, b) == (2 * a + b) \div (2 * b)

\* math_ops.tanh on one number: the (3,2) Pade approximant of tanh, which is
\* odd, monotone and reaches 1 at x = 3, rounded to the grid and saturated
\* outside [-3, 3] (as floating-point tanh saturates to +-1).
TanhNum(v) ==
  IF v >= 3 * Scale THEN Scale
  ELSE IF v <= -(3 * Scale) THEN -Scale
  ELSE RoundDiv(v * (27 * Scale * Scale + v * v),
                27 * Scale * Scale + 9 * v * v)

\* math_ops.sigmoid on one number: sigmoid(x) = (1 + tanh(x / 2)) / 2
SigmoidNum(v) ==
  IF v >= 6 * Scale THEN Scale
  ELSE IF v <= -(6 * Scale) THEN 0
  ELSE LET den == 27 * 4 * Scale * Scale + 9 * v * v
       IN  RoundDiv(2 * Scale * den + v * (27 * 4 * Scale * Scale + v * v),
                    4 * den)

ReluNum(v) == IF v > 0 THEN v ELSE 0

\* ------------------------------------------------------------ tensor shapes
NoValue == <<>>

Rows(m) == Len(m)
Cols(m) == IF Len(m) = 0 THEN 0 ELSE Len(m[1])

\* F(v) and F(v, w), with the arguments evaluated once and then shared by
\* every use in F (a local variable assignment)
Bind(v, F(_)) == CHOOSE r \in {F(x) : x \in {v}} : TRUE
Bind2(v, w, F(_, _)) == CHOOSE r \in {F(x, y) : x \in {v}, y \in {w}} : TRUE

\* the unary function named f, on one number
ApplyNum(f, v) ==
  CASE f = "tanh" -> TanhNum(v)
    [] f = "sigmoid" -> SigmoidNum(v)
    [] f = "relu" -> ReluNum(v)
    [] f = "identity" -> v

\* the elementwise function named f applied to every entry of a tensor
Map1(f, m) ==
  Bind(m, LAMBDA t :
    [i \in 1..Rows(t) |-> [j \in 1..Cols(t) |-> ApplyNum(f, t[i][j])]])

\* -------------------------------------------------------- elementwise ops
Sigmoid(m) == Map1("sigmoid", m)
Tanh(m) == Map1("tanh", m)
Relu(m) == Map1("relu", m)
Identity(m) == Map1("identity", m)

\* The binary ops are only defined on operands of matching shapes (the cells
\* never rely on broadcasting); on other operands the op fails, which is
\* modelled by the result NoValue, a tensor without rows.
SameShape(x, y) == Rows(x) = Rows(y) /\ Cols(x) = Cols(y)

AddNum(v, w) == v + w
MultiplyNum(v, w) == RoundDiv(v * w, Scale)
MaximumNum(v, w) == IF v >= w THEN v ELSE w

\* the binary function named f, on two numbers
ApplyNum2(f, v, w) ==
  CASE f = "add" -> AddNum(v, w)
    [] f = "multiply" -> MultiplyNum(v, w)
    [] f = "maximum" -> MaximumNum(v, w)

\* the binary function named f applied entry by entry
Map2(f, x0, y0) ==
  Bind2(x0, y0, LAMBDA x, y :
    IF ~SameShape(x, y) THEN NoValue
    ELSE [i \in 1..Rows(x) |->
            [j \in 1..Cols(x) |-> ApplyNum2(f, x[i][j], y[i][j])]])

Add(x, y) == Map2("add", x, y)
Multiply(x, y) == Map2("multiply", x, y)
Maximum(x, y) == Map2("maximum", x, y)

\* nn_ops.bias_add: the 1-D bias is added to every row of value
BiasAddOK(value, bias_) == Rows(value) > 0 /\ Cols(value) = Len(bias_)
\* a faulty BiasAdd: the bias is checked but not added
BiasAddDropped(value, bias_) ==
  Bind2(value, bias_, LAMBDA x, b : IF ~BiasAddOK(x, b) THEN NoValue ELSE x)

BiasAdd(value, bias_) ==
  Bind2(value, bias_, LAMBDA x, b :
    IF ~BiasAddOK(x, b) THEN NoValue
    ELSE [i \in 1..Rows(x) |-> [j \in 1..Cols(x) |-> x[i][j] + b[j]]])

RECURSIVE Dot(_, _, _, _, _)
\* sum over k in 1..n of x[i][k] * w[k][j], in units of 1 / Scale^2
Dot(x, w, i, j, n) ==
  IF n = 0 THEN 0 ELSE x[i][n] * w[n][j] + Dot(x, w, i, j, n - 1)

\* math_ops.matmul: the inner dimensions must agree
MatMulOK(x, w) == Rows(x) > 0 /\ Cols(x) = Rows(w)
MatMul(x0, w0) ==
  Bind2(x0, w0, LAMBDA x, w :
    IF ~MatMulOK(x, w) THEN NoValue
    ELSE [i \in 1..Rows(x) |->
            [j \in 1..Cols(w) |-> RoundDiv(Dot(x, w, i, j, Cols(x)), Scale)]])

\* ---------------------------------------------------------- split / concat
zero == 0
one == 1

RECURSIVE SumSeq(_, _)
\* the sum of the first n entries of the sequence s
SumSeq(s, n) == IF n = 0 THEN 0 ELSE s[n] + SumSeq(s, n - 1)

\* the size of value along axis (a 1-D tensor only has axis zero)
Dim(value, axis) == IF axis = zero THEN Rows(value) ELSE Cols(value)

\* array_ops.split with an integer count: num equal pieces
EvenSizes(dim, num) == [i \in 1..num |-> dim \div num]

\* shape inference of array_ops.split: a size list must add up to the split
\* dimension, an integer count must divide it
SplitSizesOK(value, sizes, axis) ==
  Dim(value, axis) > 0 /\ SumSeq(sizes, Len(sizes)) = Dim(value, axis)
SplitEvenOK(value, num, axis) ==
  Dim(value, axis) > 0 /\ Dim(value, axis) % num = 0

\* array_ops.split with a list of sizes: piece i holds sizes[i] consecutive
\* rows (axis zero) or columns (axis one), in order
Split(value0, sizes0, axis) ==
  Bind2(value0, sizes0, LAMBDA value, sizes :
    [p \in 1..Len(sizes) |->
       LET off == SumSeq(sizes, p - 1)
       IN  IF ~SplitSizesOK(value, sizes, axis) THEN NoValue
           ELSE IF axis = zero
           THEN [r \in 1..sizes[p] |-> value[off + r]]
           ELSE [r \in 1..Rows(value) |->
                   [j \in 1..sizes[p] |-> value[r][off + j]]]])

\* array_ops.concat([x, y], 1): the operands must have the same rows
Concat1(x0, y0) ==
  Bind2(x0, y0, LAMBDA x, y :
    IF Rows(x) # Rows(y) THEN NoValue
    ELSE [i \in 1..Rows(x) |-> x[i] \o y[i]])

\* LSTMStateTuple(c, h)
LSTMStateTuple(c, h) == <<c, h>>

\* ------------------------------------------------------------ the cell
VARIABLES
  kind,            \* the class of the cell: BasicNeatCell or AdvancedNeatCell
  num_units,       \* self._num_units
  forget_bias,     \* self._forget_bias (fixed point)
  state_is_tuple,  \* self._state_is_tuple
  activation,      \* self._activation
  built,           \* self.built
  kernel,          \* self._kernel, NoValue before build
  bias,            \* self._bias, NoValue before build
  error,           \* outcome of the last operation: none, ValueError, OpError
  steps,           \* number of successful calls so far
  inputs_shape,    \* the argument of the last build, <<>> before any build
  inputs,          \* the inputs argument of the last call
  prev,            \* the state argument of the last successful call
  output,          \* the output returned by the last successful call
  state,           \* the new state returned by the last successful call
  trace            \* the tensors the last successful call computed on its way

vars == <<kind, num_units, forget_bias, state_is_tuple, activation, built,
          kernel, bias, error, steps, inputs_shape, inputs, prev, output,
          state, trace>>

Kinds == {"BasicNeatCell", "AdvancedNeatCell"}

\* the constructor arguments forget_bias and activation of the cells that are
\* constructed: the defaults (1.0, None), and 0.0 with relu
ConstructorArgs ==
  {[forget_bias |-> Scale, activation |-> "None"],
   [forget_bias |-> 0, activation |-> "relu"]}

\* the cell object as the methods see it
Self ==
  [kind |-> kind, num_units |-> num_units, forget_bias |-> forget_bias,
   state_is_tuple |-> state_is_tuple, activation |-> activation,
   kernel |-> kernel, bias |-> bias]

\* the application act(m) of an activation function to a tensor
Apply(act, m) == Map1(act, m)

\* __init__: activation or math_ops.tanh
DefaultActivation(arg) == IF arg = "None" THEN "tanh" ELSE arg

\* property state_size
state_size(self) ==
  IF self.state_is_tuple
  THEN LSTMStateTuple(self.num_units, self.num_units)
  ELSE 2 * self.num_units

\* property output_size
output_size(self) == self.num_units

\* ------------------------------------------------------------------- build
\* a dimension of a static shape: value is meaningful only when known
Dimensions ==
  {[known |-> FALSE, value |-> 0]} \cup
  {[known |-> TRUE, value |-> d] : d \in 1..MaxDepth}

\* a faulty KernelShape: the four gates of a standard LSTM cell
KernelShapeLSTM(input_depth, n) == <<input_depth + n, 4 * n>>

\* the shapes build asks add_variable for
KernelShape(input_depth, n) == <<input_depth + n, 8 * n>>
BiasShape(n) == <<8 * n>>

\* an initial value the variable store may give a kernel of the given shape:
\* every weight is -1, 0 or 1
InitialKernel(seed, shape) ==
  [i \in 1..shape[1] |->
     [j \in 1..shape[2] |-> ((((seed + 1) * i + (seed + 2) * j + i * j) % 3) - 1) * Scale]]

\* init_ops.zeros_initializer
Zeros(shape) == [j \in 1..shape[1] |-> 0]

\* a bias value a checkpoint may hold: every entry is -1/2, 0 or 1/2
RestoredBias(seed, n) ==
  [j \in 1..n |-> (((seed + 2 * j + (j \div 3)) % 3) - 1) * (Scale \div 2)]

\* -------------------------------------------------------------------- call
\* a faulty UnpackState: a concatenated state is read as [h, c]
UnpackStateSwapped(self, state_) ==
  IF self.state_is_tuple
  THEN state_
  ELSE Bind(Split(state_, EvenSizes(Dim(state_, one), 2), one),
            LAMBDA hc : <<hc[2], hc[1]>>)

\* the (c, h) pair call reads from its state argument
UnpackState(self, state_) ==
  IF self.state_is_tuple
  THEN state_
  ELSE Split(state_, EvenSizes(Dim(state_, one), 2), one)

\* a faulty PackState: the two components of the state in the wrong order
PackStateSwapped(self, new_c, new_h) ==
  IF self.state_is_tuple
  THEN LSTMStateTuple(new_h, new_c)
  ELSE Concat1(new_h, new_c)

\* a faulty PackState: the concatenated state is the hidden state alone
PackStateHiddenOnly(self, new_c, new_h) ==
  IF self.state_is_tuple
  THEN LSTMStateTuple(new_c, new_h)
  ELSE new_h

\* the state call returns
PackState(self, new_c, new_h) ==
  IF self.state_is_tuple
  THEN LSTMStateTuple(new_c, new_h)
  ELSE Concat1(new_c, new_h)

\* "Nas cell 1": new_c and new_h of BasicNeatCell from the previous cell state
\* and the gates; tanh is the function call binds to the local name tanh
BasicNas(tanh, c0, g0) ==
  Bind2(c0, g0, LAMBDA c, g :
    Bind(Multiply(Apply(tanh, Add(c, Apply(tanh, Multiply(Relu(g.h), Sigmoid(g.g))))),
                  Apply(tanh, Add(Sigmoid(g.d), Relu(g.a)))),
         LAMBDA new_c :
           <<new_c,
             Apply(tanh, Multiply(Identity(new_c),
                Apply(tanh, Add(Apply(tanh, Multiply(Sigmoid(g.e), Apply(tanh, g.f))),
                                Sigmoid(Add(Sigmoid(g.b), Apply(tanh, g.c2)))))))>>))

\* "Nas cell 2": new_c and new_h of AdvancedNeatCell
AdvancedNas(tanh, c0, g0) ==
  Bind2(c0, g0, LAMBDA c, g :
    Bind(Multiply(Identity(Add(Identity(Add(c, Apply(tanh, g.z))), Identity(g.y))),
                  Sigmoid(Add(Relu(g.v), Apply(tanh, g.s)))),
         LAMBDA new_c :
           <<new_c,
             Apply(tanh, Multiply(Identity(new_c),
                Sigmoid(Multiply(Sigmoid(Add(Apply(tanh, g.x), Apply(tanh, g.w))),
                                 Sigmoid(Add(Identity(g.u), Apply(tanh, g.t)))))))>>))

\* a faulty BasicRatio: the seven remaining gates counted as eight
BasicRatioNine(n) == <<n * 1, n * 8>>

\* the column split of the kernel and the bias: [first block, remaining block]
BasicRatio(n) == <<n * 1, n * 7>>
AdvancedRatio(n) == <<n * 5, n * 3>>

\* BasicNeatCell.call: every tensor it computes, and whether every op's
\* shape inference succeeds (ok)
BasicCall(self, inputs_, state_) ==
  LET input_depth == Cols(inputs_)
      ratio == BasicRatio(self.num_units)
      rows == <<input_depth, self.num_units>>
  IN
  Bind(UnpackState(self, state_), LAMBDA ch :
  Bind(Split(self.kernel, ratio, one), LAMBDA W :
  Bind(Split(W[1], rows, zero), LAMBDA Wf :
  Bind(Split(self.bias, ratio, zero), LAMBDA b_ :
  Bind(Multiply(MatMul(ch[2], Wf[2]), MatMul(inputs_, Wf[1])), LAMBDA a0 :
  Bind(BiasAdd(a0, b_[1]), LAMBDA a :
  Bind(Split(W[2], rows, zero), LAMBDA Wr :
  Bind(Add(MatMul(ch[2], Wr[2]), MatMul(inputs_, Wr[1])), LAMBDA bh0 :
  Bind(BiasAdd(bh0, b_[2]), LAMBDA bh :
  Bind(Split(bh, EvenSizes(Dim(bh, one), 7), one), LAMBDA s7 :
  Bind([a |-> a, b |-> s7[1], c2 |-> s7[2], d |-> s7[3], e |-> s7[4],
        f |-> s7[5], g |-> s7[6], h |-> s7[7]], LAMBDA gates :
  Bind(BasicNas("tanh", ch[1], gates), LAMBDA nas :
  Bind(PackState(self, nas[1], nas[2]), LAMBDA new_state :
    LET c == ch[1]
        h == ch[2]
        W_f == W[1]
        W_r == W[2]
        W_fi == Wf[1]
        W_fh == Wf[2]
        b_f == b_[1]
        b_r == b_[2]
        W_ri == Wr[1]
        W_rh == Wr[2]
        new_c == nas[1]
        new_h == nas[2]
        ok == /\ self.state_is_tuple \/ SplitEvenOK(state_, 2, one)
              /\ SplitSizesOK(self.kernel, ratio, one)
              /\ SplitSizesOK(W_f, rows, zero)
              /\ SplitSizesOK(self.bias, ratio, zero)
              /\ MatMulOK(h, W_fh) /\ MatMulOK(inputs_, W_fi)
              /\ Rows(a0) > 0 /\ BiasAddOK(a0, b_f)
              /\ SplitSizesOK(W_r, rows, zero)
              /\ MatMulOK(h, W_rh) /\ MatMulOK(inputs_, W_ri)
              /\ Rows(bh0) > 0 /\ BiasAddOK(bh0, b_r)
              /\ SplitEvenOK(bh, 7, one)
              /\ Rows(new_c) > 0 /\ Rows(new_h) > 0
              /\ Rows(new_state) > 0
    IN  [ok |-> ok, c |-> c, h |-> h, ratio |-> ratio,
         W_f |-> W_f, W_r |-> W_r, W_fi |-> W_fi, W_fh |-> W_fh,
         W_ri |-> W_ri, W_rh |-> W_rh, b_f |-> b_f, b_r |-> b_r,
         pre_f |-> a, pre_r |-> bh, gates |-> gates,
         new_c |-> new_c, new_h |-> new_h,
         output |-> new_h, new_state |-> new_state])))))))))))))

\* AdvancedNeatCell.call
AdvancedCall(self, inputs_, state_) ==
  LET input_depth == Cols(inputs_)
      ratio == AdvancedRatio(self.num_units)
      rows == <<input_depth, self.num_units>>
  IN
  Bind(UnpackState(self, state_), LAMBDA ch :
  Bind(Split(self.kernel, ratio, one), LAMBDA W :
  Bind(Split(W[1], rows, zero), LAMBDA Wf :
  Bind(Split(self.bias, ratio, zero), LAMBDA b_ :
  Bind(Add(MatMul(ch[2], Wf[2]), MatMul(inputs_, Wf[1])), LAMBDA sw0 :
  Bind(BiasAdd(sw0, b_[1]), LAMBDA sw :
  Bind(Split(sw, EvenSizes(Dim(sw, one), 5), one), LAMBDA s5 :
  Bind(Split(W[2], rows, zero), LAMBDA Wr :
  Bind(Maximum(MatMul(ch[2], Wr[2]), MatMul(inputs_, Wr[1])), LAMBDA xz0 :
  Bind(BiasAdd(xz0, b_[2]), LAMBDA xz :
  Bind(Split(xz, EvenSizes(Dim(xz, one), 3), one), LAMBDA s3 :
  Bind([s |-> s5[1], t |-> s5[2], u |-> s5[3], v |-> s5[4],
        w |-> s5[5], x |-> s3[1], y |-> s3[2], z |-> s3[3]], LAMBDA gates :
  Bind(AdvancedNas("tanh", ch[1], gates), LAMBDA nas :
  Bind(PackState(self, nas[1], nas[2]), LAMBDA new_state :
    LET c == ch[1]
        h == ch[2]
        W_f == W[1]
        W_r == W[2]
        W_fi == Wf[1]
        W_fh == Wf[2]
        b_f == b_[1]
        b_r == b_[2]
        W_ri == Wr[1]
        W_rh == Wr[2]
        new_c == nas[1]
        new_h == nas[2]
        ok == /\ self.state_is_tuple \/ SplitEvenOK(state_, 2, one)
              /\ SplitSizesOK(self.kernel, ratio, one)
              /\ SplitSizesOK(W_f, rows, zero)
              /\ SplitSizesOK(self.bias, ratio, zero)
              /\ MatMulOK(h, W_fh) /\ MatMulOK(inputs_, W_fi)
              /\ Rows(sw0) > 0 /\ BiasAddOK(sw0, b_f)
              /\ SplitEvenOK(sw, 5, one)
              /\ SplitSizesOK(W_r, rows, zero)
              /\ MatMulOK(h, W_rh) /\ MatMulOK(inputs_, W_ri)
              /\ Rows(xz0) > 0 /\ BiasAddOK(xz0, b_r)
              /\ SplitEvenOK(xz, 3, one)
              /\ Rows(new_c) > 0 /\ Rows(new_h) > 0
              /\ Rows(new_state) > 0
    IN  [ok |-> ok, c |-> c, h |-> h, ratio |-> ratio,
         W_f |-> W_f, W_r |-> W_r, W_fi |-> W_fi, W_fh |-> W_fh,
         W_ri |-> W_ri, W_rh |-> W_rh, b_f |-> b_f, b_r |-> b_r,
         pre_f |-> sw, pre_r |-> xz, gates |-> gates,
         new_c |-> new_c, new_h |-> new_h,
         output |-> new_h, new_state |-> new_state]))))))))))))))

\* call of the class the cell object belongs to
call(self, inputs_, state_) ==
  IF self.kind = "BasicNeatCell"
  THEN BasicCall(self, inputs_, state_)
  ELSE AdvancedCall(self, inputs_, state_)

\* ------------------------------------------------------------- environment
\* an inputs tensor of shape [batch, depth]: every entry is -1, 0 or 1
InputData(seed, batch, depth) ==
  [i \in 1..batch |->
     [j \in 1..depth |-> (((seed + i + 2 * j) % 3) - 1) * Scale]]

\* a state the caller passes to the first call, of the form state_size
\* describes: seed 0 is the zero state, the others hold entries in -1/2 .. 1
InitialState(self, seed, batch) ==
  LET c0 == [i \in 1..batch |->
               [j \in 1..self.num_units |->
                  IF seed = 0 THEN 0
                  ELSE (((seed + 2 * i + j) % 4) - 1) * (Scale \div 2)]]
      h0 == [i \in 1..batch |->
               [j \in 1..self.num_units |->
                  IF seed = 0 THEN 0
                  ELSE (((seed + i + 2 * j) % 3) - 1) * (Scale \div 2)]]
  IN  IF self.state_is_tuple THEN LSTMStateTuple(c0, h0) ELSE Concat1(c0, h0)

\* ----------------------------------------------------------------- actions
\* __init__ of either class
Init ==
  /\ kind \in Kinds
  /\ num_units \in 1..MaxUnits
  /\ state_is_tuple \in BOOLEAN
  /\ \E args \in ConstructorArgs :
       /\ forget_bias = args.forget_bias
       /\ activation = DefaultActivation(args.activation)
  /\ built = FALSE
  /\ kernel = NoValue
  /\ bias = NoValue
  /\ error = "none"
  /\ steps = 0
  /\ inputs_shape = NoValue
  /\ inputs = NoValue
  /\ prev = NoValue
  /\ output = NoValue
  /\ state = NoValue
  /\ trace = NoValue

\* the static shape [batch, dim] of a 2-D tensor whose batch size is unknown
\* (Python's inputs_shape[1] is the second entry, inputs_shape[2] here)
TensorShape(dim) == <<[known |-> FALSE, value |-> 0], dim>>

\* build(inputs_shape), where dim is inputs_shape[1]; the layer is built once
build(dim, seed) ==
  /\ ~built
  /\ inputs_shape' = TensorShape(dim)
  /\ IF ~dim.known
     THEN /\ error' = "ValueError"
          /\ UNCHANGED <<kernel, bias, built>>
     ELSE LET input_depth == dim.value
              h_depth == num_units
          IN  /\ kernel' = InitialKernel(seed, KernelShape(input_depth, h_depth))
              /\ bias' = Zeros(BiasShape(num_units))
              /\ built' = TRUE
              /\ error' = "none"
  /\ UNCHANGED <<kind, num_units, forget_bias, state_is_tuple, activation,
                 steps, inputs, prev, output, state, trace>>

Build == \E dim \in Dimensions, seed \in KernelSeeds : build(dim, seed)

\* the variable store writes the bias of a built cell (a checkpoint restore
\* before the cell is run)
AssignBias ==
  /\ built
  /\ steps = 0
  /\ bias = Zeros(BiasShape(num_units))
  /\ \E seed \in BiasSeeds : bias' = RestoredBias(seed, 8 * num_units)
  /\ error' = "none"
  /\ UNCHANGED <<kind, num_units, forget_bias, state_is_tuple, activation,
                 built, kernel, steps, inputs_shape, inputs, prev, output,
                 state, trace>>

\* a faulty CallFrame: call gets its bias from the variable store with the
\* zeros initializer, as a cell without a build method does
CallFrameNewBias ==
  /\ bias' = Zeros(BiasShape(num_units))
  /\ UNCHANGED <<kind, num_units, forget_bias, state_is_tuple, activation,
                 built, kernel, inputs_shape>>

\* what call leaves alone: it reads the cell's fields and variables and
\* creates or assigns none of them
CallFrame ==
  UNCHANGED <<kind, num_units, forget_bias, state_is_tuple, activation,
              built, kernel, bias, inputs_shape>>

\* one time step: call(inputs_, state_) on a built cell; when the shape
\* inference of one of its ops fails, the op raises and nothing is returned
Step(inputs_, state_) ==
  \E r \in {call(Self, inputs_, state_)} :
      IF r.ok
      THEN /\ inputs' = inputs_
           /\ prev' = state_
           /\ output' = r.output
           /\ state' = r.new_state
           /\ trace' = r
           /\ steps' = steps + 1
           /\ error' = "none"
      ELSE /\ inputs' = inputs_
           /\ error' = "OpError"
           /\ UNCHANGED <<prev, output, state, trace, steps>>

\* The first call gets an initial state, each later call the state the
\* previous call returned; the inputs have the batch size of the state and the
\* depth the cell was built for.
Call ==
  /\ built
  /\ steps < MaxSteps
  /\ \E state_ \in IF steps = 0
                    THEN {InitialState(Self, ss, b) :
                            ss \in StateSeeds, b \in 1..MaxBatch}
                    ELSE {state} :
       \E is \in InputSeeds :
         \E inputs_ \in {InputData(is, Rows(UnpackState(Self, state_)[1]),
                                   inputs_shape[2].value)} :
           Step(inputs_, state_)
  /\ CallFrame

Next == Build \/ AssignBias \/ Call

Spec == Init /\ [][Next]_vars

\* ------------------------------------------------------------ properties
\* the last call succeeded, so inputs, prev, output, state and trace all
\* belong to the same call
Called == steps > 0 /\ error = "none"

ShapeOf(m) == <<Rows(m), Cols(m)>>

\* the first n and the last n columns of a tensor with 2n columns, and the
\* column-wise concatenation of two tensors, by direct indexing
LeftHalf(m) == [i \in 1..Rows(m) |-> SubSeq(m[i], 1, Cols(m) \div 2)]
RightHalf(m) == [i \in 1..Rows(m) |-> SubSeq(m[i], Cols(m) \div 2 + 1, Cols(m))]
Columns(x, y) == [i \in 1..Rows(x) |-> [j \in 1..(Cols(x) + Cols(y)) |->
                    IF j <= Cols(x) THEN x[i][j] ELSE y[i][j - Cols(x)]]]

\* the previous cell state and hidden state the last call was given
PrevC == IF state_is_tuple THEN prev[1] ELSE LeftHalf(prev)
PrevH == IF state_is_tuple THEN prev[2] ELSE RightHalf(prev)

\* the input depth the cell was built for
BuiltDepth == Rows(kernel) - num_units

NonZero(m) == \E i \in 1..Rows(m) : \E j \in 1..Cols(m) : m[i][j] # 0
NonZeroVector(v) == \E j \in 1..Len(v) : v[j] # 0

\* C1: call returns (new_h, new_state), where new_state holds new_c first and
\* the same new_h second, as a 2-tuple or as their column-wise concatenation;
\* the output equals the hidden component of the returned state.
C1_OutputIsHiddenState ==
  Called =>
    /\ output = trace.new_h
    /\ IF state_is_tuple
       THEN /\ Len(state) = 2
            /\ state[1] = trace.new_c
            /\ state[2] = trace.new_h
            /\ output = state[2]
       ELSE /\ ShapeOf(state) = <<Rows(output), 2 * num_units>>
            /\ LeftHalf(state) = trace.new_c
            /\ RightHalf(state) = trace.new_h
            /\ output = RightHalf(state)

C1_Witness ==
  /\ Called /\ steps >= 2 /\ ~state_is_tuple /\ kind = "AdvancedNeatCell"
  /\ NonZero(output) /\ output # trace.new_c

\* C2: the concatenated and the tuple state representation are equivalent:
\* the same cell with the other state_is_tuple, called with the same inputs
\* and the other representation of the same (c, h), returns the same output
\* and the other representation of the same (new_c, new_h); splitting a
\* concatenated state gives c as the first half and h as the second.
C2_StateRepresentationsAgree ==
  Called =>
    \E other \in {call([Self EXCEPT !.state_is_tuple = ~state_is_tuple], inputs,
                       IF state_is_tuple THEN Columns(prev[1], prev[2])
                       ELSE <<LeftHalf(prev), RightHalf(prev)>>)} :
      /\ other.ok
      /\ other.output = output
      /\ IF state_is_tuple
         THEN other.new_state = Columns(state[1], state[2])
         ELSE other.new_state = <<LeftHalf(state), RightHalf(state)>>
      /\ trace.c = PrevC /\ other.c = PrevC
      /\ trace.h = PrevH /\ other.h = PrevH

C2_Witness ==
  /\ Called /\ ~state_is_tuple /\ steps >= 2
  /\ NonZero(LeftHalf(prev)) /\ NonZero(RightHalf(prev))
  /\ LeftHalf(prev) # RightHalf(prev)

\* C3: build raises ValueError exactly when inputs_shape[1] is unknown, and
\* then creates no variable and leaves built False; for a known depth d it
\* creates a kernel of shape [d + num_units, 8 * num_units] and a bias of
\* shape [8 * num_units] and sets built; no other operation raises ValueError.
C3_BuildValidation ==
  /\ inputs_shape = NoValue => ~built /\ error = "none"
  /\ inputs_shape # NoValue =>
       /\ (error = "ValueError") <=> ~inputs_shape[2].known
       /\ built <=> inputs_shape[2].known
  /\ ~built => kernel = NoValue /\ bias = NoValue /\ steps = 0
  /\ built =>
       /\ ShapeOf(kernel) = <<inputs_shape[2].value + num_units, 8 * num_units>>
       /\ Len(bias) = 8 * num_units

C3_Witness ==
  /\ built /\ num_units = 2 /\ inputs_shape[2].value = 2 /\ steps = 0
  /\ NonZero(kernel)

AddScalar(m, k) == [i \in 1..Rows(m) |-> [j \in 1..Cols(m) |-> m[i][j] + k]]

\* C4: forget_bias is added to the bias of the forget gate: some gate's
\* pre-activation exceeds, by forget_bias, the pre-activation the same cell
\* with forget_bias 0.0 computes from the same kernel, bias, inputs and state.
C4_ForgetBiasAdded ==
  Called =>
    \E plain \in {call([Self EXCEPT !.forget_bias = 0], inputs, prev)} :
      \E g \in DOMAIN trace.gates :
        trace.gates[g] = AddScalar(plain.gates[g], forget_bias)

\* the gates of the two classes, in the order of their kernel columns
GateNames ==
  IF kind = "BasicNeatCell"
  THEN <<"a", "b", "c2", "d", "e", "f", "g", "h">>
  ELSE <<"s", "t", "u", "v", "w", "x", "y", "z">>

\* the pre-activation of the k-th gate written out on the fused kernel: entry
\* [i][j] combines the input part and the hidden part of column
\* (k - 1) * num_units + j of the kernel and adds that entry of the bias
BlockGate(combine, k) ==
  LET d == Cols(inputs)
      col(j) == (k - 1) * num_units + j
  IN  Bind2(PrevH, [r \in 1..num_units |-> kernel[d + r]], LAMBDA hp, wh :
        [i \in 1..Rows(inputs) |->
           [j \in 1..num_units |->
              ApplyNum2(combine,
                        RoundDiv(Dot(inputs, kernel, i, col(j), d), Scale),
                        RoundDiv(Dot(hp, wh, i, col(j), num_units), Scale))
              + bias[col(j)]]])

Combiner(k) ==
  IF kind = "BasicNeatCell"
  THEN IF k = 1 THEN "multiply" ELSE "add"
  ELSE IF k <= 5 THEN "add" ELSE "maximum"

NasWith(act) ==
  IF kind = "BasicNeatCell"
  THEN BasicNas(act, trace.c, trace.gates)
  ELSE AdvancedNas(act, trace.c, trace.gates)

\* C6: the inner states use the constructor's activation (tanh when None):
\* new_c and new_h are what the formulas give with self._activation in place
\* of tanh.
C6_ActivationApplied ==
  Called =>
    <<trace.new_c, trace.new_h>> = NasWith(activation)

\* a state of batch rows has the arity and the shapes size describes
StateMatches(st, size, batch) ==
  IF state_is_tuple
  THEN /\ Len(st) = 2 /\ Len(size) = 2
       /\ \A k \in 1..2 : ShapeOf(st[k]) = <<batch, size[k]>>
  ELSE ShapeOf(st) = <<batch, size>>

\* C7: output_size is num_units, state_size is (num_units, num_units) for a
\* tuple state and 2 * num_units otherwise, and along any chain of calls every
\* returned output has shape [batch, output_size] and every returned state
\* has the arity and shapes of state_size, as the state it was called with.
C7_CellInterfaceKept ==
  /\ output_size(Self) = num_units
  /\ IF state_is_tuple
     THEN state_size(Self) = <<num_units, num_units>>
     ELSE state_size(Self) = 2 * num_units
  /\ Called =>
       /\ ShapeOf(output) = <<Rows(inputs), output_size(Self)>>
       /\ StateMatches(prev, state_size(Self), Rows(inputs))
       /\ StateMatches(state, state_size(Self), Rows(inputs))

C7_Witness ==
  /\ Called /\ steps >= 2 /\ ~state_is_tuple /\ num_units = 2
  /\ Rows(inputs) = 2 /\ NonZero(state)

C9_CallLeavesCellUnchanged ==
  [][(steps' # steps \/ (error' = "OpError" /\ built)) =>
       /\ UNCHANGED <<kernel, bias, num_units, state_is_tuple, built>>
       /\ UNCHANGED <<kind, forget_bias, activation>>
       /\ steps' # steps =>
            /\ Columns(trace'.W_f, trace'.W_r) = kernel
            /\ trace'.b_f \o trace'.b_r = bias]_vars

C9_Witness ==
  /\ Called /\ steps >= 2 /\ NonZeroVector(bias) /\ NonZero(kernel)

====
